---- MODULE Spec2Model ----
(***************************************************************************)
(* Model of the calibration curve of direct_calibration_wizard.py:         *)
(* ChannelCalibration (points, threshold, use_smooth), its point           *)
(* management, its interpolators and the handlers of ChannelTab and        *)
(* ExportTab that write the curve.                                         *)
(*                                                                         *)
(* Python integers are unbounded, so nothing wraps in the program.  The    *)
(* floating-point expressions of the interpolators are modelled by their   *)
(* exact rational value followed by int() (truncation toward zero); where  *)
(* the exact value is an integer N reached through operations that IEEE    *)
(* arithmetic rounds, the float may fall just below N, and the result is   *)
(* the choice between N-1 and N.                                           *)
(***************************************************************************)
EXTENDS Integers, Sequences, FiniteSets, TLC

VARIABLES
    points,       \* ChannelCalibration.points: percent -> pwm value
    threshold,    \* ChannelCalibration.threshold
    use_smooth,   \* ChannelCalibration.use_smooth
    name,         \* ChannelCalibration.name
    last,         \* the last call made on the curve: operation, arguments,
                  \* returned value and the curve as it was before the call
    threshold_input,   \* ChannelTab.threshold_input: the spin box's value
    threshold_value,   \* ChannelTab._threshold_value: the finder's sweep value
    threshold_timer,   \* ChannelTab._threshold_timer is running
    thresh_test_btn,   \* ChannelTab.thresh_test_btn ("Find") is enabled
    smooth_btn,        \* ChannelTab.smooth_btn is checked
    linear_btn,        \* ChannelTab.linear_btn is checked
    file,              \* the snapshot _save_json wrote for this channel, if any
    saved,             \* the curve as it was when that snapshot was written
    sweep_running,     \* ChannelTab._sweep_running
    sweep_position,    \* ChannelTab._sweep_position, in fiftieths of a percent
    sweep_direction,   \* ChannelTab._sweep_direction: 1 forward, -1 reverse
    sweep_timer,       \* ChannelTab._sweep_timer is running
    sweep_btn,         \* ChannelTab.sweep_btn is checked
    direction_combo,   \* ChannelTab.direction_combo: the word of the current item
    mode_combo,        \* ChannelTab.mode_combo: the text of the current item
    speed_slider,      \* ChannelTab.speed_slider: its value
    display_sweep_position,  \* CurveDisplayWidget.sweep_position (-1 hides it)
    sent,              \* the last value send_channel sent for this channel, if any
    point_widgets      \* ChannelTab.point_widgets: the percents that have a widget

curveVars == <<points, threshold, use_smooth, name>>
finderVars == <<threshold_input, threshold_value, threshold_timer, thresh_test_btn>>
modeVars == <<smooth_btn, linear_btn>>
fileVars == <<file, saved>>
sweepVars == <<sweep_running, sweep_position, sweep_direction, sweep_timer, sweep_btn,
               direction_combo, mode_combo, speed_slider, display_sweep_position>>
vars == <<points, threshold, use_smooth, name, last, threshold_input, threshold_value,
          threshold_timer, thresh_test_btn, smooth_btn, linear_btn, file, saved,
          sweep_running, sweep_position, sweep_direction, sweep_timer, sweep_btn,
          direction_combo, mode_combo, speed_slider, display_sweep_position, sent,
          point_widgets>>

\* ------------------------------------------------------------ constants

PWM_MAX == 65535

\* threshold_input.setRange(0, 5000)
THRESHOLD_MAX == 5000
\* _threshold_tick: self._threshold_value += 10, until it is >= 2000
FINDER_STEP == 10
FINDER_STOP == 2000

\* ---------------------------------------------------------------- bounds

\* The most points a curve of the model holds (the program has no limit).
MaxPoints == 5

\* Arguments the model passes: percents (below 0, inside, above 100) ...
PercentArgs == {-3, 0, 1, 20, 25, 50, 100, 150}
\* ... (percent, pwm value) pairs for set_point, the percent and the value each
\* below the range, inside it and above it ...
SetArgs == {<<-3, 1000>>, <<0, 1000>>, <<20, -1>>, <<20, 40000>>, <<50, 70000>>,
            <<100, 1000>>, <<150, 70000>>}
\* ... and (lower, upper) pairs for add_point_between: a free midpoint, no
\* integer midpoint, a midpoint that may be taken, keys absent, out of range.
PairArgs == {<<20, 30>>, <<20, 21>>, <<0, 100>>, <<1, 50>>, <<50, 100>>, <<100, 200>>}

\* ------------------------------------------------------------- helpers

Min2(a, b) == IF a <= b THEN a ELSE b
Max2(a, b) == IF a >= b THEN a ELSE b

\* A call that returns nothing / returns None, and one that returns v.
None == <<>>
Some(v) == <<v>>

\* dict.pop(key, None) / del: the mapping without key k.
DictWithout(pts, k) == [q \in DOMAIN pts \ {k} |-> pts[q]]

\* dict[k] = v: insert or overwrite.
DictWith(pts, k, v) == [q \in DOMAIN pts \cup {k} |-> IF q = k THEN v ELSE pts[q]]

\* dict.get(k, default)
DictGet(pts, k, default) == IF k \in DOMAIN pts THEN pts[k] ELSE default

\* --------------------------------------------------- ChannelCalibration

\* __init__: the default 4-point curve.
DefaultPoints == (0 :> 0) @@ (1 :> 0) @@ (50 :> (PWM_MAX \div 2)) @@ (100 :> PWM_MAX)

\* set_point storing the value as given.
set_point_unclamped(pts, percent, pwm_value) == DictWith(pts, percent, pwm_value)

\* set_point: self.points[percent] = max(0, min(PWM_MAX, pwm_value))
set_point(pts, percent, pwm_value) ==
    DictWith(pts, percent, Max2(0, Min2(PWM_MAX, pwm_value)))

\* remove_point without the endpoint guard.
remove_point_any(pts, percent) == DictWithout(pts, percent)

\* remove_point: if percent not in [0, 100]: self.points.pop(percent, None)
remove_point(pts, percent) ==
    IF percent \notin {0, 100} THEN DictWithout(pts, percent) ELSE pts

\* add_point_between that overwrites a midpoint already present.
add_point_between_overwrite(pts, lower_percent, upper_percent) ==
    LET new_percent == (lower_percent + upper_percent) \div 2
        lower_val == DictGet(pts, lower_percent, 0)
        upper_val == DictGet(pts, upper_percent, PWM_MAX)
    IN  IF new_percent # lower_percent /\ new_percent # upper_percent
        THEN [points |-> DictWith(pts, new_percent, (lower_val + upper_val) \div 2),
              ret |-> Some(new_percent)]
        ELSE [points |-> pts, ret |-> None]

\* add_point_between seeding the new point with the upper neighbour's value.
add_point_between_upper(pts, lower_percent, upper_percent) ==
    LET new_percent == (lower_percent + upper_percent) \div 2
        upper_val == DictGet(pts, upper_percent, PWM_MAX)
    IN  IF new_percent \notin DOMAIN pts /\ new_percent # lower_percent
           /\ new_percent # upper_percent
        THEN [points |-> DictWith(pts, new_percent, upper_val),
              ret |-> Some(new_percent)]
        ELSE [points |-> pts, ret |-> None]

\* add_point_between seeding the new point with 0.
add_point_between_seed_zero(pts, lower_percent, upper_percent) ==
    LET new_percent == (lower_percent + upper_percent) \div 2
    IN  IF new_percent \notin DOMAIN pts /\ new_percent # lower_percent
           /\ new_percent # upper_percent
        THEN [points |-> DictWith(pts, new_percent, 0), ret |-> Some(new_percent)]
        ELSE [points |-> pts, ret |-> None]

\* add_point_between: the curve after the call and the value returned.
\* Python's // is floor division, as \div is.
add_point_between(pts, lower_percent, upper_percent) ==
    LET new_percent == (lower_percent + upper_percent) \div 2
        lower_val == DictGet(pts, lower_percent, 0)
        upper_val == DictGet(pts, upper_percent, PWM_MAX)
        new_val == (lower_val + upper_val) \div 2
    IN  IF new_percent \notin DOMAIN pts /\ new_percent # lower_percent
           /\ new_percent # upper_percent
        THEN [points |-> DictWith(pts, new_percent, new_val),
              ret |-> Some(new_percent)]
        ELSE [points |-> pts, ret |-> None]

\* ------------------------------------------------- exact arithmetic
\* The smooth interpolator's exact rational value needs integers of about
\* 130 bits.  A magnitude is a sequence of limbs, least significant first, in
\* base BASE, without a leading zero limb; a signed integer is a sign s and a
\* magnitude m.

BASE == 100 * 100

Abs(n) == IF n < 0 THEN -n ELSE n
Sign(n) == IF n < 0 THEN -1 ELSE IF n > 0 THEN 1 ELSE 0

RECURSIVE MagStrip(_)
MagStrip(m) ==
    IF m = <<>> THEN m
    ELSE IF m[Len(m)] = 0 THEN MagStrip(SubSeq(m, 1, Len(m) - 1)) ELSE m

RECURSIVE MagOfNat(_)
MagOfNat(n) == IF n = 0 THEN <<>> ELSE <<n % BASE>> \o MagOfNat(n \div BASE)

\* The magnitude with coefficients c[i], i >= from, and the carry brought in
\* (coefficients may exceed a limb or be negative; the total is >= 0).
RECURSIVE MagCarry(_, _, _)
MagCarry(c, from, carry) ==
    IF from > Len(c) THEN MagOfNat(carry)
    ELSE LET v == c[from] + carry
         IN  <<v % BASE>> \o MagCarry(c, from + 1, v \div BASE)

Limb(m, i) == IF i <= Len(m) THEN m[i] ELSE 0

MagAdd(a, b) ==
    MagStrip(MagCarry([i \in 1..Max2(Len(a), Len(b)) |-> Limb(a, i) + Limb(b, i)], 1, 0))

\* a - b for a >= b
MagSub(a, b) ==
    MagStrip(MagCarry([i \in 1..Max2(Len(a), Len(b)) |-> Limb(a, i) - Limb(b, i)], 1, 0))

\* -1, 0, 1 as a < b, a = b, a > b, comparing from limb i down.
RECURSIVE MagCmpFrom(_, _, _)
MagCmpFrom(a, b, i) ==
    IF i = 0 THEN 0
    ELSE IF a[i] # b[i] THEN (IF a[i] < b[i] THEN -1 ELSE 1)
    ELSE MagCmpFrom(a, b, i - 1)

MagCmp(a, b) ==
    IF Len(a) # Len(b) THEN (IF Len(a) < Len(b) THEN -1 ELSE 1)
    ELSE MagCmpFrom(a, b, Len(a))

\* sum of a[i] * b[k + 1 - i] for i in lo..hi
RECURSIVE ConvSum(_, _, _, _, _)
ConvSum(a, b, k, lo, hi) ==
    IF lo > hi THEN 0 ELSE a[lo] * b[k + 1 - lo] + ConvSum(a, b, k, lo + 1, hi)

MagMul(a, b) ==
    IF a = <<>> \/ b = <<>> THEN <<>>
    ELSE MagStrip(MagCarry(
            [k \in 1..(Len(a) + Len(b) - 1) |->
                ConvSum(a, b, k, Max2(1, k + 1 - Len(b)), Min2(Len(a), k))], 1, 0))

BInt(n) == [s |-> Sign(n), m |-> MagOfNat(Abs(n))]
BZero == [s |-> 0, m |-> <<>>]
BNeg(a) == [s |-> -(a.s), m |-> a.m]
BMul(a, b) == [s |-> a.s * b.s, m |-> MagMul(a.m, b.m)]

BAdd(a, b) ==
    IF a.s = 0 THEN b
    ELSE IF b.s = 0 THEN a
    ELSE IF a.s = b.s THEN [s |-> a.s, m |-> MagAdd(a.m, b.m)]
    ELSE LET c == MagCmp(a.m, b.m)
         IN  IF c = 0 THEN BZero
             ELSE IF c > 0 THEN [s |-> a.s, m |-> MagSub(a.m, b.m)]
             ELSE [s |-> b.s, m |-> MagSub(b.m, a.m)]

BSub(a, b) == BAdd(a, BNeg(b))

\* -1, 0, 1 as a < b, a = b, a > b
BCmp(a, b) ==
    IF a.s # b.s THEN (IF a.s < b.s THEN -1 ELSE 1)
    ELSE IF a.s = 0 THEN 0
    ELSE a.s * MagCmp(a.m, b.m)

\* a * k for an integer k
BTimes(a, k) == BMul(a, BInt(k))

\* floor(num / den) for den > 0 and lo <= num/den < hi + 1, by bisection.
RECURSIVE BFloorIn(_, _, _, _)
BFloorIn(num, den, lo, hi) ==
    IF lo >= hi THEN lo
    ELSE LET mid == (lo + hi + 1) \div 2
         IN  IF BCmp(BTimes(den, mid), num) <= 0
             THEN BFloorIn(num, den, mid, hi)
             ELSE BFloorIn(num, den, lo, mid - 1)

\* --------------------------------------------------------- interpolation
\* A percent is the rational pn / pd with pd > 0.  exact says that the float
\* the program holds is that rational (an integer, a dyadic fraction); it is
\* FALSE for a percent that float operations have rounded.  Each interpolator
\* yields the set of values the call can return.

\* int() of a float whose exact value is i + n/d with 0 <= n < d: truncation
\* toward zero.  When the exact value is the integer i and the operations
\* that led to it round (rounds), the float may lie just under or just over
\* i, and int() yields i - 1 for a positive i, i + 1 for a negative one.
IntOfFloat(i, n, d, rounds) ==
    IF n = 0
    THEN IF ~rounds THEN {i}
         ELSE IF i > 0 THEN {i - 1, i}
         ELSE IF i < 0 THEN {i, i + 1}
         ELSE {0}
    ELSE IF i >= 0 THEN {i} ELSE {i + 1}

RECURSIVE GCD(_, _)
GCD(a, b) == IF b = 0 THEN a ELSE GCD(b, a % b)

RECURSIVE IsPow2(_)
IsPow2(k) == IF k = 1 THEN TRUE ELSE IF k % 2 = 1 THEN FALSE ELSE IsPow2(k \div 2)

\* u / w (w > 0, u >= 0) is a float exactly: its reduced denominator is a
\* power of two.
Dyadic(u, w) == IsPow2(w \div GCD(w, u))

\* get_sorted_percents: sorted(self.points.keys())
RECURSIVE SortedSeq(_)
SortedSeq(S) ==
    IF S = {} THEN <<>>
    ELSE LET m == CHOOSE x \in S : \A y \in S : x <= y
         IN  <<m>> \o SortedSeq(S \ {m})

get_sorted_percents(pts) == SortedSeq(DOMAIN pts)

\* The loop of interpolate_linear from index i on: lower is the last key
\* below percent, upper the first key above it, where the loop breaks.
RECURSIVE LinearBracket(_, _, _, _, _, _)
LinearBracket(sorted_pts, i, pn, pd, lower, upper) ==
    IF i > Len(sorted_pts) THEN [lower |-> lower, upper |-> upper]
    ELSE LET p == sorted_pts[i]
         IN  IF p * pd < pn THEN LinearBracket(sorted_pts, i + 1, pn, pd, p, upper)
             ELSE IF p * pd > pn THEN [lower |-> lower, upper |-> p]
             ELSE LinearBracket(sorted_pts, i + 1, pn, pd, lower, upper)

\* interpolate_linear rounding to nearest instead of truncating.
interpolate_linear_round(pts, pn, pd, exact) ==
    LET sorted_pts == get_sorted_percents(pts)
        n == Len(sorted_pts)
        br == LinearBracket(sorted_pts, 1, pn, pd, sorted_pts[1], sorted_pts[n])
        w == (br.upper - br.lower) * pd
        num == pts[br.lower] * w + (pn - br.lower * pd) * (pts[br.upper] - pts[br.lower])
    IN  IF pn <= sorted_pts[1] * pd THEN {pts[sorted_pts[1]]}
        ELSE IF pn >= sorted_pts[n] * pd THEN {pts[sorted_pts[n]]}
        ELSE IF pn % pd = 0 /\ (pn \div pd) \in DOMAIN pts THEN {pts[pn \div pd]}
        ELSE {(2 * num + w) \div (2 * w)}

\* interpolate_linear without the flat extrapolation: the end segments are
\* prolonged beyond the first and the last key.
interpolate_linear_extrapolating(pts, pn, pd, exact) ==
    LET sorted_pts == get_sorted_percents(pts)
        n == Len(sorted_pts)
        lower == IF pn <= sorted_pts[1] * pd THEN sorted_pts[1] ELSE sorted_pts[n - 1]
        upper == IF pn <= sorted_pts[1] * pd THEN sorted_pts[2] ELSE sorted_pts[n]
        w == (upper - lower) * pd
        num == pts[lower] * w + (pn - lower * pd) * (pts[upper] - pts[lower])
    IN  IF pn % pd = 0 /\ (pn \div pd) \in DOMAIN pts THEN {pts[pn \div pd]}
        ELSE IntOfFloat(num \div w, num % w, w, FALSE)

\* interpolate_linear without the return of a stored value at a key inside
\* the curve: the neighbouring keys are interpolated instead.
interpolate_linear_skip_key(pts, pn, pd, exact) ==
    LET sorted_pts == get_sorted_percents(pts)
        n == Len(sorted_pts)
        br == LinearBracket(sorted_pts, 1, pn, pd, sorted_pts[1], sorted_pts[n])
        w == (br.upper - br.lower) * pd
        num == pts[br.lower] * w + (pn - br.lower * pd) * (pts[br.upper] - pts[br.lower])
    IN  IF pn <= sorted_pts[1] * pd THEN {pts[sorted_pts[1]]}
        ELSE IF pn >= sorted_pts[n] * pd THEN {pts[sorted_pts[n]]}
        ELSE IntOfFloat(num \div w, num % w, w, FALSE)

\* interpolate_linear (pts not empty: sorted_pts[0] raises IndexError on an
\* empty map).
interpolate_linear(pts, pn, pd, exact) ==
    LET sorted_pts == get_sorted_percents(pts)
        n == Len(sorted_pts)
        br == LinearBracket(sorted_pts, 1, pn, pd, sorted_pts[1], sorted_pts[n])
        lower == br.lower
        upper == br.upper
        \* t = (percent - lower) / (upper - lower) = u / w
        u == pn - lower * pd
        w == (upper - lower) * pd
        \* self.points[lower] + t * (self.points[upper] - self.points[lower])
        num == pts[lower] * w + u * (pts[upper] - pts[lower])
        rounds == pts[upper] # pts[lower] /\ ~(exact /\ Dyadic(u, w))
    IN  IF pn < sorted_pts[1] * pd THEN {pts[sorted_pts[1]]}
        ELSE IF pn > sorted_pts[n] * pd THEN {pts[sorted_pts[n]]}
        ELSE IF pn % pd = 0 /\ (pn \div pd) \in DOMAIN pts
        THEN \* percent on a key: the first or the last key, or
             \* "percent in self.points"; a rounded percent may miss the key
             \* by an ulp and interpolate next to it
             IntOfFloat(pts[pn \div pd], 0, 1, ~exact)
        ELSE IF upper = lower THEN {pts[lower]}
        ELSE IntOfFloat(num \div w, num % w, w, rounds)

\* A tangent is the exact rational n / d (d > 0).  lim marks a tangent the
\* radius-3 limiter has rescaled by tau = 3 / sqrt(alpha^2 + beta^2), an
\* irrational factor the model does not compute: such a tangent is known
\* only to be finite.
Tangent(n, d) == [n |-> n, d |-> d, lim |-> FALSE]
TangentZero == Tangent(BZero, BInt(1))
TangentLimited == [n |-> BZero, d |-> BInt(1), lim |-> TRUE]

\* deltas[i] = dy / dx of segment i, kept as the pair (dx is never 0: the
\* keys of a dict are distinct).
Deltas(x_vals, y_vals) ==
    [i \in 1..(Len(x_vals) - 1) |->
        [dy |-> y_vals[i + 1] - y_vals[i], dx |-> x_vals[i + 1] - x_vals[i]]]

\* The tangents before the limiter: one-sided differences at the two ends;
\* inside, 0 where the secants change sign or one is 0, their harmonic mean
\* 2 / (1/d1 + 1/d2) = 2 dy1 dy2 / (dx1 dy2 + dx2 dy1) otherwise.
InitialTangents(deltas, n) ==
    [i \in 1..n |->
        IF i = 1 THEN Tangent(BInt(deltas[1].dy), BInt(deltas[1].dx))
        ELSE IF i = n THEN Tangent(BInt(deltas[n - 1].dy), BInt(deltas[n - 1].dx))
        ELSE LET a == deltas[i - 1]
                 b == deltas[i]
             IN  IF Sign(a.dy) * Sign(b.dy) <= 0 THEN TangentZero
                 ELSE Tangent(
                        BTimes(BMul(BInt(2 * Abs(a.dy)), BInt(Abs(b.dy))), Sign(a.dy)),
                        BAdd(BMul(BInt(a.dx), BInt(Abs(b.dy))),
                             BMul(BInt(b.dx), BInt(Abs(a.dy)))))]

\* alpha^2 + beta^2 > 9 for alpha = m0 / delta, beta = m1 / delta:
\* (n0^2 d1^2 + n1^2 d0^2) dx^2 > 9 dy^2 d0^2 d1^2
OutsideCircle(m0, m1, delta) ==
    LET a == BMul(m0.n, m1.d)
        b == BMul(m1.n, m0.d)
        c == BMul(m0.d, m1.d)
        dx2 == BMul(BInt(delta.dx), BInt(delta.dx))
        dy2 == BMul(BInt(delta.dy), BInt(delta.dy))
    IN  BCmp(BMul(BAdd(BMul(a, a), BMul(b, b)), dx2),
             BTimes(BMul(dy2, BMul(c, c)), 9)) > 0

\* The limiter, segment i on, in the order of the code's loop: a flat
\* segment zeroes both its tangents; otherwise a pair outside the circle of
\* radius 3 is rescaled.  A comparison on a rescaled tangent is not decided
\* by the model, which then takes the pair as rescaled.
RECURSIVE LimitTangents(_, _, _)
LimitTangents(tangents, deltas, i) ==
    IF i > Len(deltas) THEN tangents
    ELSE LET m0 == tangents[i]
             m1 == tangents[i + 1]
             next ==
                 IF deltas[i].dy = 0
                 THEN [tangents EXCEPT ![i] = TangentZero, ![i + 1] = TangentZero]
                 ELSE IF m0.lim \/ m1.lim \/ OutsideCircle(m0, m1, deltas[i])
                 THEN [tangents EXCEPT ![i] = TangentLimited, ![i + 1] = TangentLimited]
                 ELSE tangents
         IN  LimitTangents(next, deltas, i + 1)

\* The segment search always settling on the first segment.
FindSegment_first(sorted_pts, i, pn, pd) == 1

\* The segment search: the first i with sorted_pts[i] <= percent <=
\* sorted_pts[i + 1], and the first segment if there is none.
RECURSIVE FindSegment(_, _, _, _)
FindSegment(sorted_pts, i, pn, pd) ==
    IF i > Len(sorted_pts) - 1 THEN 1
    ELSE IF sorted_pts[i] * pd <= pn /\ pn <= sorted_pts[i + 1] * pd THEN i
    ELSE FindSegment(sorted_pts, i + 1, pn, pd)

\* The Hermite value at t = u / w on a segment of width h from y0 to y1 with
\* tangents m0, m1, as the fraction num / den:
\*   h00 y0 + h10 h m0 + h01 y1 + h11 h m1
\* with the basis polynomials over w^3.
Hermite(y0, y1, h, m0, m1, u, w) ==
    LET U == BInt(u)
        W == BInt(w)
        t2w == BMul(BMul(U, U), W)            \* t^2 over w^3
        t3 == BMul(BMul(U, U), U)             \* t^3 over w^3
        tw2 == BMul(U, BMul(W, W))            \* t over w^3
        w3 == BMul(W, BMul(W, W))             \* 1 over w^3
        h00 == BAdd(BSub(BTimes(t3, 2), BTimes(t2w, 3)), w3)
        h10 == BAdd(BSub(t3, BTimes(t2w, 2)), tw2)
        h01 == BAdd(BTimes(t3, -2), BTimes(t2w, 3))
        h11 == BSub(t3, t2w)
        dd == BMul(m0.d, m1.d)
    IN  [num |-> BAdd(BMul(BAdd(BTimes(h00, y0), BTimes(h01, y1)), dd),
                      BTimes(BAdd(BMul(BMul(h10, m0.n), m1.d),
                                  BMul(BMul(h11, m1.n), m0.d)), h)),
         den |-> BMul(w3, dd)]

Clamp(v, lo, hi) == Max2(lo, Min2(hi, v))

\* int(max(0, min(PWM_MAX, max(min_val, min(max_val, result))))) for the
\* float result whose exact value is r.num / r.den.  known is FALSE when a
\* rescaled tangent entered the result; rounds is FALSE when the float
\* operations are exact (t = 0 or 1: the basis polynomials are 0 and 1).
ClampedInt(r, known, rounds, y0, y1) ==
    LET a == Clamp(Min2(y0, y1), 0, PWM_MAX)
        b == Clamp(Max2(y0, y1), 0, PWM_MAX)
        q == BFloorIn(r.num, r.den, a, b)
    IN  IF a = b THEN {a}
        ELSE IF ~known THEN a..b
        ELSE IF BCmp(r.num, BTimes(r.den, a)) <= 0 THEN {a}
        ELSE IF BCmp(r.num, BTimes(r.den, b)) > 0 THEN {b}
        ELSE IF BCmp(r.num, BTimes(r.den, q)) = 0 /\ rounds THEN {q - 1, q}
        ELSE {q}

\* interpolate_smooth with the segment clamp left out.
interpolate_smooth_unclamped(pts, pn, pd, exact) ==
    LET sorted_pts == get_sorted_percents(pts)
        n == Len(sorted_pts)
        y_vals == [i \in 1..n |-> pts[sorted_pts[i]]]
        deltas == Deltas(sorted_pts, y_vals)
        tangents == LimitTangents(InitialTangents(deltas, n), deltas, 1)
        i == FindSegment(sorted_pts, 1, pn, pd)
        h == sorted_pts[i + 1] - sorted_pts[i]
        r == Hermite(y_vals[i], y_vals[i + 1], h, tangents[i], tangents[i + 1],
                     pn - sorted_pts[i] * pd, h * pd)
    IN  IF pn <= sorted_pts[1] * pd THEN {pts[sorted_pts[1]]}
        ELSE IF pn >= sorted_pts[n] * pd THEN {pts[sorted_pts[n]]}
        ELSE {BFloorIn(r.num, r.den, 0, PWM_MAX)}

\* interpolate_smooth taking the last segment's end value below the first key
\* and the first segment's start value above the last key.
interpolate_smooth_swapped_ends(pts, pn, pd, exact) ==
    LET sorted_pts == get_sorted_percents(pts)
        n == Len(sorted_pts)
    IN  IF pn <= sorted_pts[1] * pd THEN {pts[sorted_pts[n]]}
        ELSE {pts[sorted_pts[1]]}

\* interpolate_smooth
interpolate_smooth(pts, pn, pd, exact) ==
    LET sorted_pts == get_sorted_percents(pts)
        n == Len(sorted_pts)
        seg_idx == FindSegment(sorted_pts, 1, pn, pd)
        x_vals == sorted_pts
        y_vals == [i \in 1..n |-> pts[sorted_pts[i]]]
        deltas == Deltas(x_vals, y_vals)
        tangents == LimitTangents(InitialTangents(deltas, n), deltas, 1)
        i == seg_idx
        x0 == x_vals[i]
        x1 == x_vals[i + 1]
        y0 == y_vals[i]
        y1 == y_vals[i + 1]
        m0 == tangents[i]
        m1 == tangents[i + 1]
        h == x1 - x0
        \* t = (percent - x0) / h = u / w
        u == pn - x0 * pd
        w == h * pd
        a == Clamp(Min2(y0, y1), 0, PWM_MAX)
        b == Clamp(Max2(y0, y1), 0, PWM_MAX)
        onKey == pn % pd = 0 /\ (pn \div pd) \in DOMAIN pts
    IN  IF n < 2 THEN {IF n = 1 THEN pts[sorted_pts[1]] ELSE 0}
        ELSE IF pn < sorted_pts[1] * pd THEN {pts[sorted_pts[1]]}
        ELSE IF pn > sorted_pts[n] * pd THEN {pts[sorted_pts[n]]}
        ELSE IF pn = sorted_pts[1] * pd \/ pn = sorted_pts[n] * pd
        THEN \* on the first or the last key: returned as stored, unless a
             \* rounded percent falls an ulp inside the end segment
             IF exact THEN {pts[pn \div pd]}
             ELSE {pts[pn \div pd]}
                  \cup {v \in IntOfFloat(Clamp(pts[pn \div pd], 0, PWM_MAX), 0, 1, TRUE) : v >= 0}
        ELSE IF onKey /\ ~exact
        THEN \* a rounded percent lands an ulp beside the key, in either of
             \* the two segments that meet there
             {v \in IntOfFloat(Clamp(y1, 0, PWM_MAX), 0, 1, TRUE) : v >= 0}
        ELSE ClampedInt(Hermite(y0, y1, h, m0, m1, u, w),
                        (u = 0 \/ u = w) \/ ~(m0.lim \/ m1.lim),
                        ~(exact /\ (u = 0 \/ u = w)), y0, y1)

\* The threshold remap adding the threshold without rescaling.
Remap_unscaled(thr, raw_value) == {thr + raw_value}

\* The threshold remap rounding to the nearest integer instead of truncating.
Remap_rounded(thr, raw_value) ==
    {thr + raw_value - ((2 * raw_value * thr + PWM_MAX) \div (2 * PWM_MAX))}

\* The threshold remap, int(threshold + (raw / PWM_MAX) * (PWM_MAX - threshold)):
\* the exact value is threshold + raw - raw * threshold / PWM_MAX.  The float
\* result was compared with the exact one at every threshold in 1..5000 and
\* every raw value in 0..PWM_MAX whose exact result is an integer: there the
\* float is that integer, so int() does not round down; elsewhere it may.
Remap(thr, raw_value) ==
    LET x == raw_value * thr
        i == thr + raw_value - (x \div PWM_MAX)
        rounds == raw_value % PWM_MAX # 0
                  /\ ~(thr \in 1..THRESHOLD_MAX /\ raw_value \in 0..PWM_MAX)
    IN  IF x % PWM_MAX = 0 THEN IntOfFloat(i, 0, PWM_MAX, rounds)
        ELSE IntOfFloat(i - 1, PWM_MAX - (x % PWM_MAX), PWM_MAX, rounds)

\* interpolate with the remap applied at percent 0 as well.
interpolate_remap_always(c, pn, pd, exact) ==
    LET raw == IF c.use_smooth /\ Cardinality(DOMAIN c.points) >= 3
               THEN interpolate_smooth(c.points, pn, pd, exact)
               ELSE interpolate_linear(c.points, pn, pd, exact)
    IN  IF c.threshold > 0
        THEN UNION {Remap(c.threshold, raw_value) : raw_value \in raw}
        ELSE raw

\* interpolate on the curve c = [points, threshold, use_smooth]
interpolate(c, pn, pd, exact) ==
    LET raw == IF c.use_smooth /\ Cardinality(DOMAIN c.points) >= 3
               THEN interpolate_smooth(c.points, pn, pd, exact)
               ELSE interpolate_linear(c.points, pn, pd, exact)
    IN  IF c.threshold > 0 /\ pn > 0
        THEN UNION {Remap(c.threshold, raw_value) : raw_value \in raw}
        ELSE raw

\* interpolate raises IndexError on a curve without points: fewer than 3
\* points send it to interpolate_linear, whose sorted_pts[0] fails.
\* interpolate_smooth returns 0 there and never raises.
interpolate_linear_raises(pts) == DOMAIN pts = {}
interpolate_raises(c) == DOMAIN c.points = {}

\* The percent of entry i of a table of the given size, (i / (size - 1)) * 100,
\* as the fraction pn / pd; the float is that fraction exactly when
\* i / (size - 1) is a dyadic fraction.
LutPercent(size, i) ==
    [pn |-> 100 * i, pd |-> size - 1, exact |-> Dyadic(i, size - 1)]

\* The tables generate_lut can return, entry i on: one entry per index in
\* range(size), each interpolate(percent).
RECURSIVE LutFrom(_, _, _)
LutFrom(c, size, i) ==
    IF i >= size THEN {<<>>}
    ELSE LET q == LutPercent(size, i)
         IN  {<<v>> \o rest : v \in interpolate(c, q.pn, q.pd, q.exact),
                              rest \in LutFrom(c, size, i + 1)}

\* generate_lut with one entry too few.
generate_lut_short(c, size) == LutFrom(c, size, 1)

\* generate_lut
generate_lut(c, size) == LutFrom(c, size, 0)

\* generate_lut raises ZeroDivisionError for size 1 (0 / 0), and whatever
\* interpolate raises when there is an entry to compute.
generate_lut_raises(c, size) == size = 1 \/ (size >= 2 /\ interpolate_raises(c))

\* ------------------------------------------------------------ the calls

\* The curve as a call finds it.
Curve == [points |-> points, threshold |-> threshold, use_smooth |-> use_smooth,
          name |-> name]

Call(op, a, b, ret) == [op |-> op, a |-> a, b |-> b, ret |-> ret, pre |-> Curve]

\* The model's bound on the number of points: a call that would add a point
\* to a full curve is not made.
Fits(pts) == Cardinality(DOMAIN pts) <= MaxPoints

\* ChannelTab._setup_ui: the sweep controls and the sweep's state.  The
\* sweep position is kept in fiftieths of a percent: a tick moves it by
\* speed * 0.02.
InitSweep ==
    /\ sweep_running = FALSE
    /\ sweep_position = 0
    /\ sweep_direction = 1
    /\ sweep_timer = FALSE
    /\ sweep_btn = FALSE
    /\ direction_combo = "Loop"
    /\ mode_combo = "Continuous"
    /\ speed_slider = 30
    /\ display_sweep_position = -1

Init ==
    /\ points = DefaultPoints
    /\ threshold = 0
    /\ use_smooth = TRUE
    /\ name = "Red"
    /\ last = [op |-> "init", a |-> 0, b |-> 0, ret |-> None,
               pre |-> [points |-> DefaultPoints, threshold |-> 0, use_smooth |-> TRUE,
                        name |-> "Red"]]
    /\ threshold_input = 0
    /\ threshold_value = 0
    /\ threshold_timer = FALSE
    /\ thresh_test_btn = TRUE
    /\ smooth_btn = TRUE
    /\ linear_btn = FALSE
    /\ file = None
    /\ saved = None
    /\ InitSweep
    /\ sent = None
    /\ point_widgets = DOMAIN points

SetPoint(percent, pwm_value) ==
    /\ Fits(set_point(points, percent, pwm_value))
    /\ points' = set_point(points, percent, pwm_value)
    /\ last' = Call("set_point", percent, pwm_value, None)
    /\ UNCHANGED <<threshold, use_smooth, name, finderVars, modeVars, fileVars, sweepVars, sent,
                   point_widgets>>

RemovePoint(percent) ==
    /\ points' = remove_point(points, percent)
    /\ last' = Call("remove_point", percent, 0, None)
    /\ UNCHANGED <<threshold, use_smooth, name, finderVars, modeVars, fileVars, sweepVars, sent,
                   point_widgets>>

AddPointBetween(lower_percent, upper_percent) ==
    LET r == add_point_between(points, lower_percent, upper_percent)
    IN  /\ Fits(r.points)
        /\ points' = r.points
        /\ last' = Call("add_point_between", lower_percent, upper_percent, r.ret)
        /\ UNCHANGED <<threshold, use_smooth, name, finderVars, modeVars, fileVars, sweepVars, sent,
                       point_widgets>>

Next ==
    \/ \E sa \in SetArgs : SetPoint(sa[1], sa[2])
    \/ \E p \in PercentArgs : RemovePoint(p)
    \/ \E pr \in PairArgs : AddPointBetween(pr[1], pr[2])

Spec == Init /\ [][Next]_vars

\* ------------------------------------------------- threshold and mode (UI)

\* The spin box is given a value (typed, stepped, or setValue): QSpinBox
\* bounds it to its range and emits valueChanged only when its value
\* changes; _on_threshold_changed then stores it in the curve.
SpinSetValue(value) ==
    LET bounded == Max2(0, Min2(THRESHOLD_MAX, value))
    IN  IF bounded = threshold_input
        THEN UNCHANGED <<threshold_input, threshold, last>>
        ELSE /\ threshold_input' = bounded
             /\ threshold' = bounded
             /\ last' = Call("_on_threshold_changed", bounded, 0, None)

\* The user edits the spin box to a value other than the one it shows.
ThresholdInput(value) ==
    /\ Max2(0, Min2(THRESHOLD_MAX, value)) # threshold_input
    /\ SpinSetValue(value)
    /\ UNCHANGED <<points, use_smooth, name, threshold_value, threshold_timer,
                   thresh_test_btn, modeVars, fileVars, sweepVars, sent,
                   point_widgets>>

\* LaserConnection.send_channel: the value that goes out on the channel.
send_channel(value) == Some(Max2(0, Min2(PWM_MAX, value)))

\* _find_threshold: a click on the enabled "Find" button.
FindThreshold ==
    /\ thresh_test_btn
    /\ threshold_value' = 0
    /\ threshold_timer' = TRUE
    /\ thresh_test_btn' = FALSE
    /\ last' = Call("_find_threshold", 0, 0, None)
    /\ UNCHANGED <<curveVars, threshold_input, modeVars, fileVars, sweepVars, sent,
                   point_widgets>>

\* _threshold_tick: a timeout of the running finder timer.
ThresholdTick ==
    /\ threshold_timer
    /\ threshold_value' = threshold_value + FINDER_STEP
    /\ SpinSetValue(threshold_value + FINDER_STEP)
    /\ sent' = IF threshold_value' >= FINDER_STOP THEN send_channel(0)
               ELSE send_channel(threshold_value')
    /\ IF threshold_value' >= FINDER_STOP
       THEN threshold_timer' = FALSE /\ thresh_test_btn' = TRUE
       ELSE UNCHANGED <<threshold_timer, thresh_test_btn>>
    /\ UNCHANGED <<points, use_smooth, name, modeVars, fileVars, sweepVars, point_widgets>>

\* A click on the checkable Smooth button toggles it, then runs
\* _on_smooth_toggle(checked).
ClickSmooth ==
    /\ smooth_btn' = ~smooth_btn
    /\ IF smooth_btn'
       THEN /\ use_smooth' = TRUE
            /\ linear_btn' = FALSE
       ELSE UNCHANGED <<use_smooth, linear_btn>>
    /\ last' = Call("_on_smooth_toggle", 0, 0, None)
    /\ UNCHANGED <<points, threshold, name, finderVars, fileVars, sweepVars, sent,
                   point_widgets>>

\* A click on the checkable Linear button toggles it, then runs
\* _on_linear_toggle(checked).
ClickLinear ==
    /\ linear_btn' = ~linear_btn
    /\ IF linear_btn'
       THEN /\ use_smooth' = FALSE
            /\ smooth_btn' = FALSE
       ELSE UNCHANGED <<use_smooth, smooth_btn>>
    /\ last' = Call("_on_linear_toggle", 0, 0, None)
    /\ UNCHANGED <<points, threshold, name, finderVars, fileVars, sweepVars, sent,
                   point_widgets>>

\* ------------------------------------------------------- linear sweep (UI)

\* direction_combo.addItems, mode_combo.addItems: each item by the word the
\* handlers look for in its text (the arrows of the direction items are left
\* out).
DirectionItems == {"Loop", "Forward", "Reverse"}
ModeItems == {"Continuous", "Single Shot"}

\* step = speed * 0.02: one percent is fifty units of the sweep position.
SWEEP_UNIT == 50
SWEEP_FULL == 100 * SWEEP_UNIT

\* speed * 0.02 and its sums are exact floats for these speeds only (0.5,
\* 1.0, 1.5, 2.0); for the others the float position may lie just beside
\* the exact one.
ExactStep(speed) == speed % 25 = 0

\* The outcome of the tests "position >= 100" and "position <= 0" on the
\* float whose exact value is pos.
Compare(pos, speed) ==
    IF pos > SWEEP_FULL THEN {"high"}
    ELSE IF pos < 0 THEN {"low"}
    ELSE IF pos = SWEEP_FULL
         THEN IF ExactStep(speed) THEN {"high"} ELSE {"high", "inside"}
    ELSE IF pos = 0
         THEN IF ExactStep(speed) THEN {"low"} ELSE {"low", "inside"}
    ELSE {"inside"}

\* int(self._sweep_position) of a position that passed neither test.
IntPercents(pos, speed) ==
    IF pos = SWEEP_FULL THEN {99}
    ELSE IF pos = 0 THEN {0}
    ELSE IF pos % SWEEP_UNIT = 0 /\ ~ExactStep(speed)
         THEN {pos \div SWEEP_UNIT - 1, pos \div SWEEP_UNIT}
    ELSE {pos \div SWEEP_UNIT}

\* _stop_sweep.
StopSweep ==
    /\ sweep_running' = FALSE
    /\ sweep_timer' = FALSE
    /\ sweep_btn' = FALSE
    /\ sent' = send_channel(0)
    /\ display_sweep_position' = -1

\* The curve of a new tab, and what interpolate returns on it at each
\* integer percent of a sweep; the table is evaluated once.
InitialCurve ==
    [points |-> DefaultPoints, threshold |-> 0, use_smooth |-> TRUE, name |-> "Red"]
InitialValues == [percent \in 0..100 |-> interpolate(InitialCurve, percent, 1, TRUE)]

\* self.calibration.interpolate(percent) in _sweep_tick: looked up in the
\* table while the curve is the initial one.
SweepValues(percent) ==
    IF Curve = InitialCurve THEN InitialValues[percent]
    ELSE interpolate(Curve, percent, 1, TRUE)

\* The end of _sweep_tick: the value at the integer percent is sent and the
\* display shows the percent.  interpolate raises on a curve without points
\* and the handler ends there.
SweepShow(percents) ==
    /\ IF interpolate_raises(Curve)
       THEN UNCHANGED <<sent, display_sweep_position>>
       ELSE \E percent \in percents :
              /\ sent' \in {send_channel(v) : v \in SweepValues(percent)}
              /\ display_sweep_position' = percent
    /\ UNCHANGED <<sweep_running, sweep_timer, sweep_btn>>

\* A click on the checkable sweep button toggles it, then runs
\* _toggle_sweep(checked).
ToggleSweep ==
    /\ IF ~sweep_btn
       THEN /\ sweep_btn' = TRUE
            /\ sweep_running' = TRUE
            /\ sweep_position' = IF direction_combo = "Reverse" THEN SWEEP_FULL ELSE 0
            /\ sweep_direction' = IF direction_combo = "Reverse" THEN -1 ELSE 1
            /\ sweep_timer' = TRUE
            /\ UNCHANGED <<sent, display_sweep_position>>
       ELSE /\ StopSweep
            /\ UNCHANGED <<sweep_position, sweep_direction>>
    /\ last' = Call("_toggle_sweep", 0, 0, None)
    /\ UNCHANGED <<curveVars, finderVars, modeVars, fileVars, direction_combo, mode_combo,
                   speed_slider, point_widgets>>

\* _sweep_tick: a timeout of the running sweep timer; the handler returns
\* at once when no sweep is running.
SweepTick ==
    /\ sweep_timer
    /\ sweep_running
    /\ LET pos == sweep_position + speed_slider * sweep_direction
       IN  \E outcome \in Compare(pos, speed_slider) :
             IF outcome = "inside"
             THEN /\ sweep_position' = pos
                  /\ UNCHANGED sweep_direction
                  /\ SweepShow(IntPercents(pos, speed_slider))
             ELSE LET end == IF outcome = "high" THEN SWEEP_FULL ELSE 0
                      other == IF outcome = "high" THEN 0 ELSE SWEEP_FULL
                  IN  IF direction_combo = "Loop"
                      THEN /\ sweep_position' = end
                           /\ sweep_direction' = IF outcome = "high" THEN -1 ELSE 1
                           /\ SweepShow({end \div SWEEP_UNIT})
                      ELSE IF mode_combo = "Single Shot"
                      THEN /\ sweep_position' = end
                           /\ UNCHANGED sweep_direction
                           /\ StopSweep
                      ELSE /\ sweep_position' = other
                           /\ UNCHANGED sweep_direction
                           /\ SweepShow({other \div SWEEP_UNIT})
    /\ last' = Call("_sweep_tick", 0, 0, None)
    /\ UNCHANGED <<curveVars, finderVars, modeVars, fileVars, direction_combo, mode_combo,
                   speed_slider, point_widgets>>

\* The user picks another item of the direction combo box.
SetDirection(item) ==
    /\ item # direction_combo
    /\ direction_combo' = item
    /\ UNCHANGED <<curveVars, last, finderVars, modeVars, fileVars, sweep_running,
                   sweep_position, sweep_direction, sweep_timer, sweep_btn, mode_combo,
                   speed_slider, display_sweep_position, sent, point_widgets>>

\* The user picks another item of the mode combo box.
SetMode(item) ==
    /\ item # mode_combo
    /\ mode_combo' = item
    /\ UNCHANGED <<curveVars, last, finderVars, modeVars, fileVars, sweep_running,
                   sweep_position, sweep_direction, sweep_timer, sweep_btn, direction_combo,
                   speed_slider, display_sweep_position, sent, point_widgets>>

\* The user moves the speed slider.
SetSpeed(value) ==
    /\ value # speed_slider
    /\ speed_slider' = value
    /\ UNCHANGED <<curveVars, last, finderVars, modeVars, fileVars, sweep_running,
                   sweep_position, sweep_direction, sweep_timer, sweep_btn, direction_combo,
                   mode_combo, display_sweep_position, sent, point_widgets>>

\* The speeds the slider is moved to, of its range 1..100.
SweepSpeeds == {40, 100}

NextSweep ==
    \/ ToggleSweep
    \/ SweepTick
    \/ \E item \in DirectionItems : SetDirection(item)
    \/ \E item \in ModeItems : SetMode(item)
    \/ \E value \in SweepSpeeds : SetSpeed(value)

\* The sweep timer is a repeating QTimer: while it runs, its timeouts keep
\* coming.
SpecSweep == Init /\ [][NextSweep]_vars /\ WF_vars(SweepTick)

\* --------------------------------------------------------------- snapshots

\* A snapshot record as json.load returns it: each field is absent (None) or
\* present (Some); its points are the items of a JSON object in file order,
\* each a pair of a key string (a sequence of characters) and a value.
DigitChars == <<"0", "1", "2", "3", "4", "5", "6", "7", "8", "9">>

IsDigit(ch) == \E d \in 1..Len(DigitChars) : DigitChars[d] = ch

DigitValue(ch) == (CHOOSE d \in 1..Len(DigitChars) : DigitChars[d] = ch) - 1

\* str(k) of an integer k
RECURSIVE StrOfNat(_)
StrOfNat(k) ==
    IF k < Len(DigitChars) THEN <<DigitChars[k + 1]>>
    ELSE StrOfNat(k \div Len(DigitChars)) \o <<DigitChars[(k % Len(DigitChars)) + 1]>>

str(k) == IF k < 0 THEN <<"-">> \o StrOfNat(-k) ELSE StrOfNat(k)

\* int(s) of a string: an optional sign and decimal digits give Some(k),
\* anything else raises ValueError (None).
RECURSIVE NatOfDigits(_, _)
NatOfDigits(s, acc) ==
    IF s = <<>> THEN acc
    ELSE NatOfDigits(Tail(s), acc * Len(DigitChars) + DigitValue(Head(s)))

AllDigits(s) == s # <<>> /\ \A i \in 1..Len(s) : IsDigit(s[i])

int(s) ==
    IF AllDigits(s) THEN Some(NatOfDigits(s, 0))
    ELSE IF s # <<>> /\ Head(s) \in {"-", "+"} /\ AllDigits(Tail(s))
    THEN Some((IF Head(s) = "-" THEN -1 ELSE 1) * NatOfDigits(Tail(s), 0))
    ELSE None

\* {int(k): v for k, v in items}: a later item overwrites an earlier one
\* with the same integer key.
RECURSIVE DictOfItems(_, _)
DictOfItems(items, acc) ==
    IF items = <<>> THEN acc
    ELSE DictOfItems(Tail(items), DictWith(acc, int(Head(items)[1])[1], Head(items)[2]))

KeysParse(items) == \A i \in 1..Len(items) : int(items[i][1]) # None

EmptyDict == [k \in {} |-> 0]

\* from_dict on the curve c.  The assignments run in order, so a key that
\* int() rejects leaves name, threshold and use_smooth loaded and the points
\* as they were.
from_dict(c, data) ==
    LET items == IF data.points = None THEN <<>> ELSE data.points[1]
    IN  [name |-> IF data.name = None THEN c.name ELSE data.name[1],
         threshold |-> IF data.threshold = None THEN 0 ELSE data.threshold[1],
         use_smooth |-> IF data.use_smooth = None THEN TRUE ELSE data.use_smooth[1],
         points |-> IF KeysParse(items) THEN DictOfItems(items, EmptyDict)
                    ELSE c.points]

\* to_dict keeping the magnitude of each key only.
to_dict_unsigned(c) ==
    LET ks == get_sorted_percents(c.points)
    IN  [name |-> Some(c.name), threshold |-> Some(c.threshold),
         use_smooth |-> Some(c.use_smooth),
         points |-> Some([i \in 1..Len(ks) |-> <<str(Abs(ks[i])), c.points[ks[i]]>>])]

\* to_dict: the items of points with str(k) keys.  A dict iterates in
\* insertion order, which the points map does not record: the items are
\* given in key order.
to_dict(c) ==
    LET ks == get_sorted_percents(c.points)
    IN  [name |-> Some(c.name), threshold |-> Some(c.threshold),
         use_smooth |-> Some(c.use_smooth),
         points |-> Some([i \in 1..Len(ks) |-> <<str(ks[i]), c.points[ks[i]]>>])]

\* The snapshot records loaded in the model.
Snapshots ==
    << \* a curve as to_dict writes it
       [name |-> Some("Red"), threshold |-> Some(1000), use_smooth |-> Some(FALSE),
        points |-> Some(<< <<str(0), 0>>, <<str(50), 20000>>, <<str(100), PWM_MAX>> >>)],
       \* a threshold above the spin box's range, the other fields absent
       [name |-> None, threshold |-> Some(6000), use_smooth |-> None, points |-> None],
       \* a negative threshold and a two-point curve
       [name |-> Some("R"), threshold |-> Some(-1), use_smooth |-> Some(TRUE),
        points |-> Some(<< <<str(0), 0>>, <<str(100), 100>> >>)],
       \* every field absent
       [name |-> None, threshold |-> None, use_smooth |-> None, points |-> None],
       \* a key that is not a number
       [name |-> None, threshold |-> Some(2000), use_smooth |-> None,
        points |-> Some(<< <<str(0), 0>>, << <<"x">>, 5 >> >>)] >>

\* _load_json with a file that holds this channel: from_dict(data[channel]).
\* The channel tab's widgets are not refreshed.
LoadJson(i) ==
    LET c == from_dict(Curve, Snapshots[i])
    IN  /\ points' = c.points
        /\ threshold' = c.threshold
        /\ use_smooth' = c.use_smooth
        /\ name' = c.name
        /\ last' = Call("from_dict", i, 0, None)
        /\ UNCHANGED <<finderVars, modeVars, fileVars, sweepVars, sent,
                       point_widgets>>

\* _save_json: the channel's to_dict() is written to the file.  json.dump
\* and json.load give back the strings, integers and booleans of the record
\* as they were.
SaveJson ==
    /\ file' = Some(to_dict(Curve))
    /\ saved' = Some(Curve)
    /\ last' = Call("_save_json", 0, 0, None)
    /\ UNCHANGED <<curveVars, finderVars, modeVars, sweepVars, sent,
                   point_widgets>>

\* _load_json of the file _save_json wrote.
LoadFile ==
    /\ file # None
    /\ LET c == from_dict(Curve, file[1])
       IN  /\ points' = c.points
           /\ threshold' = c.threshold
           /\ use_smooth' = c.use_smooth
           /\ name' = c.name
    /\ last' = Call("_load_json", 0, 0, None)
    /\ UNCHANGED <<finderVars, modeVars, fileVars, sweepVars, sent,
                   point_widgets>>

\* The points and thresholds of the curves that are saved and loaded.
SnapSetArgs == {<<-3, 1000>>, <<20, 40000>>}
SnapThresholds == {0, 1000}

NextSnap ==
    \/ \E sa \in SnapSetArgs : SetPoint(sa[1], sa[2])
    \/ RemovePoint(50)
    \/ \E value \in SnapThresholds : ThresholdInput(value)
    \/ ClickSmooth
    \/ ClickLinear
    \/ SaveJson
    \/ LoadFile

SpecSnap == Init /\ [][NextSnap]_vars

\* The values typed into the threshold spin box.
SpinArgs == {-1, 1000, 6000}

NextLoad ==
    \/ \E value \in SpinArgs : ThresholdInput(value)
    \/ FindThreshold
    \/ ThresholdTick
    \/ \E i \in 1..Len(Snapshots) : LoadJson(i)

SpecLoad == Init /\ [][NextLoad]_vars

\* ------------------------------------------------------ point widgets (UI)

\* _rebuild_points_ui: point_widgets is cleared and gets one entry for each
\* percent of get_sorted_percents().
rebuild_points_ui(pts) ==
    {get_sorted_percents(pts)[i] : i \in 1..Len(get_sorted_percents(pts))}

\* The AddPointButtons _rebuild_points_ui made: one between each percent
\* and the next one, where they are more than 1 apart.
AddButtons(widgets) ==
    {pr \in widgets \X widgets :
        /\ pr[2] - pr[1] > 1
        /\ ~\E p \in widgets : pr[1] < p /\ p < pr[2]}

\* _on_point_value_changed: the spin box of the widget of percent is given
\* a value of its range 0..PWM_MAX.
OnPointValueChanged(percent, value) ==
    /\ percent \in point_widgets
    /\ value \in 0..PWM_MAX
    /\ Fits(set_point(points, percent, value))
    /\ points' = set_point(points, percent, value)
    /\ last' = Call("_on_point_value_changed", percent, value, None)
    /\ UNCHANGED <<threshold, use_smooth, name, finderVars, modeVars, fileVars, sweepVars,
                   sent, point_widgets>>

\* _on_remove_point: a click on the "X" of the widget of percent; the
\* widgets of 0 and 100 have none.
OnRemovePoint(percent) ==
    /\ percent \in point_widgets \ {0, 100}
    /\ points' = remove_point(points, percent)
    /\ point_widgets' = rebuild_points_ui(points')
    /\ last' = Call("_on_remove_point", percent, 0, None)
    /\ UNCHANGED <<threshold, use_smooth, name, finderVars, modeVars, fileVars, sweepVars,
                   sent>>

\* _on_add_point: a click on the AddPointButton between lower and upper.
\* The widgets are rebuilt "if new_percent:", that is when a point was
\* added and its percent is not 0.
OnAddPoint(lower, upper) ==
    /\ <<lower, upper>> \in AddButtons(point_widgets)
    /\ LET r == add_point_between(points, lower, upper)
       IN  /\ Fits(r.points)
           /\ points' = r.points
           /\ point_widgets' = IF r.ret # None /\ r.ret[1] # 0
                               THEN rebuild_points_ui(points')
                               ELSE point_widgets
           /\ last' = Call("_on_add_point", lower, upper, r.ret)
    /\ UNCHANGED <<threshold, use_smooth, name, finderVars, modeVars, fileVars, sweepVars,
                   sent>>

\* The value typed into the point widgets, the widgets it is typed into or
\* whose "X" is clicked, and the AddPointButtons that are clicked.
WidgetValues == {40000}
WidgetPercents == {1, 25, 50}
WidgetPairs == {<<0, 50>>, <<1, 50>>, <<50, 100>>}

NextWidgets ==
    \/ \E percent \in WidgetPercents : \E value \in WidgetValues :
          OnPointValueChanged(percent, value)
    \/ \E percent \in WidgetPercents : OnRemovePoint(percent)
    \/ \E pr \in WidgetPairs : OnAddPoint(pr[1], pr[2])
    \/ \E i \in 1..Len(Snapshots) : LoadJson(i)

SpecWidgets == Init /\ [][NextWidgets]_vars

\* ---------------------------------------------------------------- queries

\* The percents the queries are made at, as fractions <<pn, pd>>: below,
\* on, between and above the keys.
LinearPercents ==
    {<<-10, 1>>, <<-1, 2>>, <<0, 1>>, <<2, 1>>, <<25, 1>>, <<50, 1>>,
     <<75, 1>>, <<100, 1>>, <<200, 1>>}
SmoothPercents == {<<-10, 1>>, <<-1, 2>>, <<25, 1>>, <<100, 1>>, <<200, 1>>}
InterpolatePercents == {<<0, 1>>, <<25, 1>>, <<100, 1>>}

\* The points and thresholds the evaluated curves are made of.
EvalSetArgs == {<<-3, 1000>>, <<100, 40000>>, <<150, 70000>>}
EvalRemoveArgs == {1, 50}
EvalThresholds == {0, 1000}

\* A call that returns one of results and leaves the curve in Linear mode.
Query_to_linear(op, a, b, raises, results) ==
    /\ IF raises THEN last' = Call(op, a, b, None)
       ELSE \E r \in results : last' = Call(op, a, b, Some(r))
    /\ use_smooth' = FALSE
    /\ UNCHANGED <<points, threshold, name, finderVars, modeVars, fileVars, sweepVars, sent,
                   point_widgets>>

\* A read-only call: it returns one of results, or raises and returns
\* nothing.
Query(op, a, b, raises, results) ==
    /\ IF raises THEN last' = Call(op, a, b, None)
       ELSE \E r \in results : last' = Call(op, a, b, Some(r))
    /\ UNCHANGED <<curveVars, finderVars, modeVars, fileVars, sweepVars, sent,
                   point_widgets>>

InterpolateLinear(pn, pd) ==
    Query("interpolate_linear", pn, pd, interpolate_linear_raises(points),
          interpolate_linear(points, pn, pd, TRUE))

InterpolateSmooth(pn, pd) ==
    Query("interpolate_smooth", pn, pd, FALSE, interpolate_smooth(points, pn, pd, TRUE))

Interpolate(pn, pd) ==
    Query("interpolate", pn, pd, interpolate_raises(Curve), interpolate(Curve, pn, pd, TRUE))

NextEval ==
    \/ \E sa \in EvalSetArgs : SetPoint(sa[1], sa[2])
    \/ \E p \in EvalRemoveArgs : RemovePoint(p)
    \/ \E value \in EvalThresholds : ThresholdInput(value)
    \/ ClickSmooth
    \/ ClickLinear
    \/ \E q \in LinearPercents : InterpolateLinear(q[1], q[2])
    \/ \E q \in SmoothPercents : InterpolateSmooth(q[1], q[2])
    \/ \E q \in InterpolatePercents : Interpolate(q[1], q[2])

SpecEval == Init /\ [][NextEval]_vars

GenerateLut(size) ==
    Query("generate_lut", size, 0, generate_lut_raises(Curve, size),
          generate_lut(Curve, size))

ToDict == Query("to_dict", 0, 0, FALSE, {to_dict(Curve)})

\* Curves the point operations reach from the default one: the default
\* curve, two points, falling values, rising and falling values, keys
\* outside [0, 100], a flat curve, and steep and shallow segments side by
\* side.
QueryCurves ==
    { DefaultPoints,
      (0 :> 0) @@ (100 :> PWM_MAX),
      (0 :> PWM_MAX) @@ (50 :> 30000) @@ (100 :> 0),
      (0 :> 0) @@ (20 :> 40000) @@ (50 :> 32767) @@ (100 :> PWM_MAX),
      (-3 :> 1000) @@ (0 :> 0) @@ (50 :> 32767) @@ (100 :> 40000) @@ (150 :> PWM_MAX),
      (0 :> 5) @@ (50 :> 5) @@ (100 :> 5),
      (0 :> 0) @@ (49 :> 100) @@ (50 :> 65000) @@ (100 :> PWM_MAX),
      (0 :> 100) @@ (3 :> 100) @@ (10 :> 101) @@ (100 :> 102) }

QueryThresholds == {0, 1000, THRESHOLD_MAX}

\* A curve of QueryCurves with a threshold entered in the spin box and a
\* mode chosen with the buttons.
InitQuery ==
    /\ points \in QueryCurves
    /\ threshold \in QueryThresholds
    /\ use_smooth \in BOOLEAN
    /\ name = "Red"
    /\ last = [op |-> "init", a |-> 0, b |-> 0, ret |-> None,
               pre |-> [points |-> points, threshold |-> threshold,
                        use_smooth |-> use_smooth, name |-> name]]
    /\ threshold_input = threshold
    /\ threshold_value = 0
    /\ threshold_timer = FALSE
    /\ thresh_test_btn = TRUE
    /\ smooth_btn = use_smooth
    /\ linear_btn = ~use_smooth
    /\ file = None
    /\ saved = None
    /\ InitSweep
    /\ sent = None
    /\ point_widgets = DOMAIN points

\* The percents of 0..100 the curves are evaluated at: keys, integers
\* between keys, and fractions.
QueryPercents ==
    {<<0, 1>>, <<1, 2>>, <<1, 1>>, <<2, 1>>, <<25, 1>>, <<100, 3>>, <<50, 1>>,
     <<75, 1>>, <<199, 2>>, <<100, 1>>}

NextQuery ==
    \/ \E q \in QueryPercents : Interpolate(q[1], q[2])
    \/ \E q \in QueryPercents : InterpolateSmooth(q[1], q[2])

SpecQuery == InitQuery /\ [][NextQuery]_vars

LutSizes == {2, 3, 4, 5}

NextLut ==
    \/ \E size \in LutSizes : GenerateLut(size)
    \/ \E q \in InterpolatePercents : Interpolate(q[1], q[2])
    \/ ToDict

SpecLut == InitQuery /\ [][NextLut]_vars

\* ------------------------------------------------------- point management

Keys(pts) == DOMAIN pts

\* C1: in every state reached by set_point, remove_point and
\* add_point_between calls the points map holds key 0 and key 100, hence at
\* least 2 points.
C1_EndpointsPresent ==
    /\ 0 \in Keys(points)
    /\ 100 \in Keys(points)
    /\ Cardinality(Keys(points)) >= 2

\* remove_point was asked to remove an endpoint that was there.
C1_Witness ==
    /\ last.op = "remove_point"
    /\ last.a \in {0, 100}
    /\ last.a \in Keys(last.pre.points)

\* C2: every stored drive-value is an integer in [0, PWM_MAX], whatever
\* values set_point was given and whatever keys add_point_between was given.
C2_ValuesInRange == \A k \in Keys(points) : points[k] \in 0..PWM_MAX

\* set_point was given a value outside [0, PWM_MAX] and stored its clamp.
C2_Witness ==
    /\ last.op = "set_point"
    /\ last.b \notin 0..PWM_MAX
    /\ points[last.a] \in {0, PWM_MAX}

\* C3 (as claimed): after set_point on a curve whose keys lie in 0..100,
\* every key of the points map lies in 0..100, whatever percent was given.
C3_KeysClamped ==
    (last.op = "set_point" /\ Keys(last.pre.points) \subseteq 0..100)
        => Keys(points) \subseteq 0..100

\* C5: remove_point(p) leaves the points map as it was when p is 0 or 100 or
\* no key; otherwise it removes key p and nothing else changes: the other
\* keys and values, the threshold and the mode are as before.
C5_RemoveFrame ==
    last.op = "remove_point" =>
        LET p == last.a
            old == last.pre.points
        IN  /\ (p \in {0, 100} \/ p \notin Keys(old)) => points = old
            /\ (p \notin {0, 100} /\ p \in Keys(old)) =>
                   /\ Keys(points) = Keys(old) \ {p}
                   /\ \A k \in Keys(points) : points[k] = old[k]
            /\ threshold = last.pre.threshold
            /\ use_smooth = last.pre.use_smooth

\* remove_point removed an interior key that was there.
C5_Witness ==
    /\ last.op = "remove_point"
    /\ last.a \notin {0, 100}
    /\ last.a \in Keys(last.pre.points)
    /\ last.a \notin Keys(points)

\* The midpoint add_point_between computes.
Mid(lower, upper) == (lower + upper) \div 2

\* add_point_between(lower, upper) has a free midpoint on the curve pts.
MidFree(pts, lower, upper) ==
    /\ Mid(lower, upper) \notin Keys(pts)
    /\ Mid(lower, upper) # lower
    /\ Mid(lower, upper) # upper

\* C6: when the midpoint is free, add_point_between(lower, upper) returns it
\* and adds exactly that point, its value (L + U) div 2 with L the value at
\* lower (0 if lower is no key) and U the value at upper (PWM_MAX if upper is
\* no key); the points that were there are unchanged.
C6_AddSeedsAverage ==
    (last.op = "add_point_between" /\ MidFree(last.pre.points, last.a, last.b)) =>
        LET old == last.pre.points
            mid == Mid(last.a, last.b)
            L == IF last.a \in Keys(old) THEN old[last.a] ELSE 0
            U == IF last.b \in Keys(old) THEN old[last.b] ELSE PWM_MAX
        IN  /\ last.ret = Some(mid)
            /\ Keys(points) = Keys(old) \cup {mid}
            /\ points[mid] = (L + U) \div 2
            /\ \A k \in Keys(old) : points[k] = old[k]

\* A point was added between a lower key that is there and an upper key
\* that is not, and the two values differ.
C6_Witness ==
    /\ last.op = "add_point_between"
    /\ last.ret # None
    /\ last.a \in Keys(last.pre.points)
    /\ last.b \notin Keys(last.pre.points)
    /\ last.pre.points[last.a] # PWM_MAX

\* C7: add_point_between(lower, upper) returns None exactly when the
\* midpoint is already a key or equals lower or upper, and then the points
\* map is unchanged.
C7_AddDeclines ==
    last.op = "add_point_between" =>
        /\ (last.ret = None) <=> ~MidFree(last.pre.points, last.a, last.b)
        /\ (last.ret = None) => points = last.pre.points

\* add_point_between declined because its midpoint was already a key.
C7_Witness ==
    /\ last.op = "add_point_between"
    /\ last.ret = None
    /\ Mid(last.a, last.b) \in Keys(last.pre.points)
    /\ Mid(last.a, last.b) # last.a


\* ---------------------------------------------------------------- threshold

\* C4: the curve's threshold is in [0, THRESHOLD_MAX] in every state, whether
\* it was set by the spin box handler, by a finder tick or by from_dict.
C4_ThresholdInRange == threshold \in 0..THRESHOLD_MAX

\* ------------------------------------------------------------ interpolation

\* The value a query returned.
Returned == last.ret[1]

\* last is a query op at an integer percent.
AtInteger(op) == last.op = op /\ last.b = 1

\* C8: interpolate(0) returns the value stored at key 0, with no threshold
\* remap; interpolate(100) returns the value stored at key 100 when the
\* threshold is 0, and that value remapped when the threshold is positive;
\* in Linear and in smooth mode alike.
C8_EndpointsReturned ==
    AtInteger("interpolate") =>
        /\ last.a = 0 => Returned = points[0]
        /\ last.a = 100 =>
              Returned \in (IF threshold > 0 THEN Remap(threshold, points[100])
                            ELSE {points[100]})

\* interpolate(100) ran the smooth interpolator with 100 an inner key of the
\* curve and remapped the result.
C8_Witness ==
    /\ AtInteger("interpolate")
    /\ last.a = 100
    /\ use_smooth
    /\ 150 \in Keys(points)
    /\ threshold > 0
    /\ Returned \in Remap(threshold, points[100])
    /\ Returned # points[100]

\* The smallest and the largest key of a map.
MinKey(pts) == CHOOSE k \in Keys(pts) : \A j \in Keys(pts) : k <= j
MaxKey(pts) == CHOOSE k \in Keys(pts) : \A j \in Keys(pts) : k >= j

\* C9: at a percent below the smallest key interpolate_linear and
\* interpolate_smooth return the value stored at the smallest key, at a
\* percent above the largest key the value stored at the largest key.
C9_FlatExtrapolation ==
    last.op \in {"interpolate_linear", "interpolate_smooth"} =>
        /\ last.a < MinKey(points) * last.b => Returned = points[MinKey(points)]
        /\ last.a > MaxKey(points) * last.b => Returned = points[MaxKey(points)]

\* interpolate_smooth was asked above a largest key that is not 100, on a
\* curve whose end segment rises, and returned that key's value.
C9_Witness ==
    /\ last.op = "interpolate_smooth"
    /\ MaxKey(points) = 150
    /\ last.a > 150 * last.b
    /\ points[100] < points[150] \/ points[50] < points[100]
    /\ Returned = points[150]

\* The keys next to an integer percent p that is not a key.
LowerKey(pts, p) == CHOOSE k \in Keys(pts) : k < p /\ \A j \in Keys(pts) : j < p => j <= k
UpperKey(pts, p) == CHOOSE k \in Keys(pts) : k > p /\ \A j \in Keys(pts) : j > p => j >= k

\* value[lower] + t * (value[upper] - value[lower]) as the fraction
\* LinearNum / LinearDen, t = (p - lower) / (upper - lower).
LinearDen(pts, p) == UpperKey(pts, p) - LowerKey(pts, p)
LinearNum(pts, p) ==
    pts[LowerKey(pts, p)] * LinearDen(pts, p)
    + (p - LowerKey(pts, p)) * (pts[UpperKey(pts, p)] - pts[LowerKey(pts, p)])

\* p is an integer strictly between two adjacent keys.
Between(pts, p) == p \notin Keys(pts) /\ MinKey(pts) < p /\ p < MaxKey(pts)

\* The integers nearest to num / den (den > 0, num >= 0): two of them at a tie.
Nearest(num, den) ==
    {k \in {num \div den, (num \div den) + 1} :
        \A j \in {num \div den, (num \div den) + 1} :
            Abs(k * den - num) <= Abs(j * den - num)}

\* C10 as stated: at an integer percent strictly between two adjacent keys
\* interpolate_linear returns the exact rational result rounded to the
\* nearest integer, and at a key that key's stored value.
C10_LinearRounded ==
    AtInteger("interpolate_linear") =>
        /\ Between(points, last.a) =>
              Returned \in Nearest(LinearNum(points, last.a), LinearDen(points, last.a))
        /\ last.a \in Keys(points) => Returned = points[last.a]

\* C10 amended: at an integer percent strictly between two adjacent keys
\* interpolate_linear returns the exact rational result truncated to an
\* integer (its floor, the values being non-negative); when that result is an
\* integer N reached through a rounded float quotient t, the float may fall
\* just short of N and the call returns N - 1.  At a key it returns that
\* key's stored value.
C10_LinearTruncated ==
    AtInteger("interpolate_linear") =>
        /\ Between(points, last.a) =>
              LET num == LinearNum(points, last.a)
                  den == LinearDen(points, last.a)
                  lower == LowerKey(points, last.a)
                  upper == UpperKey(points, last.a)
                  short == /\ num % den = 0
                           /\ num > 0
                           /\ points[upper] # points[lower]
                           /\ ~Dyadic(last.a - lower, den)
              IN  Returned \in {num \div den} \cup (IF short THEN {(num \div den) - 1} ELSE {})
        /\ last.a \in Keys(points) => Returned = points[last.a]

\* interpolate_linear returned a truncated value that is not the nearest
\* integer: the exact result's fraction is above one half.
C10_Witness ==
    /\ AtInteger("interpolate_linear")
    /\ Between(points, last.a)
    /\ 2 * (LinearNum(points, last.a) % LinearDen(points, last.a)) > LinearDen(points, last.a)
    /\ Returned = LinearNum(points, last.a) \div LinearDen(points, last.a)


\* The values the interpolator chosen by the mode can return at pn / pd,
\* before any remap.
RawValues(c, pn, pd) ==
    IF c.use_smooth /\ Cardinality(Keys(c.points)) >= 3
    THEN interpolate_smooth(c.points, pn, pd, TRUE)
    ELSE interpolate_linear(c.points, pn, pd, TRUE)

\* floor(thr + v * (PWM_MAX - thr) / PWM_MAX) = thr + v - ceil(v * thr / PWM_MAX)
RemapFloor(thr, v) == thr + v - ((v * thr + PWM_MAX - 1) \div PWM_MAX)

\* C11: interpolate(p) returns the raw interpolated value v when the
\* threshold is 0 or p <= 0, and floor(threshold + v * (PWM_MAX - threshold)
\* / PWM_MAX) otherwise; with threshold 1000 a raw PWM_MAX at percent 100
\* gives PWM_MAX, and percent 0 gives the raw value.
C11_ThresholdRemap ==
    last.op = "interpolate" =>
        /\ Returned \in
              {IF threshold = 0 \/ last.a <= 0 THEN v ELSE RemapFloor(threshold, v) :
                  v \in RawValues(Curve, last.a, last.b)}
        /\ threshold = 1000 /\ last.a = 100 /\ last.b = 1 /\ points[100] = PWM_MAX
              => Returned = PWM_MAX
        /\ last.a = 0 => Returned = points[0]

\* interpolate remapped a raw value that is neither 0 nor PWM_MAX with a
\* positive threshold, and the exact remap was not an integer.
C11_Witness ==
    /\ last.op = "interpolate"
    /\ threshold > 0
    /\ last.a > 0
    /\ \E v \in RawValues(Curve, last.a, last.b) :
          /\ v \in 1..(PWM_MAX - 1)
          /\ (v * threshold) % PWM_MAX # 0
          /\ Returned = RemapFloor(threshold, v)


AdjacentKeys(pts, k1, k2) ==
    /\ k1 \in Keys(pts)
    /\ k2 \in Keys(pts)
    /\ k1 < k2
    /\ \A k \in Keys(pts) : ~(k1 < k /\ k < k2)

\* C13: on a curve of at least 3 points, whatever the order of its values,
\* interpolate_smooth at a percent within [min key, max key] returns a value
\* between the two values stored at the ends of a segment that brackets the
\* percent.
C13_NoOvershoot ==
    /\ last.op = "interpolate_smooth"
    /\ Cardinality(Keys(points)) >= 3
    /\ MinKey(points) * last.b <= last.a
    /\ last.a <= MaxKey(points) * last.b
    => \E k1, k2 \in Keys(points) :
          /\ AdjacentKeys(points, k1, k2)
          /\ k1 * last.b <= last.a
          /\ last.a <= k2 * last.b
          /\ Min2(points[k1], points[k2]) <= Returned
          /\ Returned <= Max2(points[k1], points[k2])

\* interpolate_smooth returned a value strictly between the ends of a
\* falling segment that lies between rising ones.
C13_Witness ==
    /\ last.op = "interpolate_smooth"
    /\ \E k1, k2 \in Keys(points) :
          /\ AdjacentKeys(points, k1, k2)
          /\ k1 * last.b < last.a
          /\ last.a < k2 * last.b
          /\ points[k1] > points[k2]
          /\ points[MinKey(points)] < points[k1]
          /\ points[k2] < points[MaxKey(points)]
          /\ points[k2] < Returned
          /\ Returned < points[k1]


\* ---------------------------------------------------------------- tables

\* The stored values do not decrease as the percent grows.
NonDecreasing(pts) ==
    \A k1, k2 \in Keys(pts) : k1 <= k2 => pts[k1] <= pts[k2]

\* C14: when the stored values are non-decreasing in percent, the table
\* generate_lut returns is non-decreasing, for every size >= 2, every
\* threshold of 0..THRESHOLD_MAX and both modes, the step from entry 0 (no
\* remap) to entry 1 (remapped) included.
C14_MonotonicLut ==
    last.op = "generate_lut" /\ last.ret # None /\ NonDecreasing(points) =>
        \A i \in 1..(Len(Returned) - 1) : Returned[i] <= Returned[i + 1]

\* generate_lut returned a rising table of more than two entries for a curve
\* of rising values, in smooth mode with a positive threshold.
C14_Witness ==
    /\ last.op = "generate_lut"
    /\ last.ret # None
    /\ NonDecreasing(points)
    /\ use_smooth
    /\ Cardinality(Keys(points)) >= 3
    /\ threshold > 0
    /\ Len(Returned) > 2
    /\ Returned[1] < Returned[2]
    /\ Returned[2] < Returned[Len(Returned)]


\* C15: generate_lut(size), size >= 2, returns exactly size entries, each
\* of 0..PWM_MAX, entry i being interpolate(i / (size - 1) * 100); the first
\* is interpolate(0) and the last interpolate(100).
C15_LutEntries ==
    last.op = "generate_lut" /\ last.a >= 2 =>
        /\ last.ret # None
        /\ Len(Returned) = last.a
        /\ \A i \in 0..(last.a - 1) :
              /\ Returned[i + 1] \in 0..PWM_MAX
              /\ Returned[i + 1] \in
                    interpolate(Curve, 100 * i, last.a - 1, Dyadic(i, last.a - 1))
        /\ Returned[1] \in interpolate(Curve, 0, 1, TRUE)
        /\ Returned[last.a] \in interpolate(Curve, 100, 1, TRUE)

\* generate_lut returned a table of 4 entries, whose inner percents are no
\* exact floats, with distinct first, inner and last entries.
C15_Witness ==
    /\ last.op = "generate_lut"
    /\ last.a = 4
    /\ last.ret # None
    /\ Len(Returned) = 4
    /\ Returned[1] # Returned[2]
    /\ Returned[2] # Returned[3]
    /\ Returned[3] # Returned[4]


\* ---------------------------------------------------------------- snapshots

\* C16: loading the snapshot to_dict made of a curve c, into whatever the
\* curve has become since, gives c's points (integer keys), threshold and
\* mode back, and with them c's interpolate at every percent.
C16_RoundTrip ==
    last.op = "_load_json" =>
        /\ points = saved[1].points
        /\ threshold = saved[1].threshold
        /\ use_smooth = saved[1].use_smooth
        /\ \A q \in InterpolatePercents :
              interpolate(Curve, q[1], q[2], TRUE) = interpolate(saved[1], q[1], q[2], TRUE)

\* A snapshot of a curve with a negative key was loaded into a curve with
\* other points, another threshold and the other mode.
C16_Witness ==
    /\ last.op = "_load_json"
    /\ -3 \in Keys(points)
    /\ last.pre.points # points
    /\ last.pre.threshold # threshold
    /\ last.pre.use_smooth # use_smooth


\* C17: after from_dict of a record with any of its fields absent, the
\* absent fields have their defaults (the name as it was, threshold 0,
\* smooth mode) and the curve holds keys 0 and 100, so that interpolate and
\* generate_lut do not raise.
C17_LoadDefaults ==
    last.op = "from_dict" =>
        LET data == Snapshots[last.a]
        IN  /\ data.name = None => name = last.pre.name
            /\ data.threshold = None => threshold = 0
            /\ data.use_smooth = None => use_smooth
            /\ 0 \in Keys(points)
            /\ 100 \in Keys(points)
            /\ ~interpolate_raises(Curve)
            /\ \A size \in LutSizes : ~generate_lut_raises(Curve, size)


\* ------------------------------------------------------------------ queries

\* The results a query can return on the curve c: a function of c and the
\* argument alone.
QueryResults(op, a, b, c) ==
    IF op = "interpolate" THEN interpolate(c, a, b, TRUE)
    ELSE IF op = "generate_lut" THEN generate_lut(c, a)
    ELSE {to_dict(c)}

C19_ThroughControlPoints ==
    /\ AtInteger("interpolate")
    /\ threshold = 0
    /\ last.a \in Keys(points)
    => Returned = points[last.a]

\* interpolate ran the smooth interpolator at an inner key whose value
\* differs from both its neighbours' and returned the stored value.
C19_Witness ==
    /\ AtInteger("interpolate")
    /\ threshold = 0
    /\ use_smooth
    /\ \E k1, k2 \in Keys(points) :
          /\ AdjacentKeys(points, k1, last.a)
          /\ AdjacentKeys(points, last.a, k2)
          /\ points[k1] # points[last.a]
          /\ points[k2] # points[last.a]
    /\ Returned = points[last.a]


\* ------------------------------------------------------------ monotonicity

\* C20: when the stored values are non-decreasing in percent and lower,
\* upper are adjacent keys, a successful add_point_between(lower, upper)
\* leaves the stored values non-decreasing in percent.
C20_AddKeepsMonotone ==
    /\ last.op = "add_point_between"
    /\ last.ret # None
    /\ NonDecreasing(last.pre.points)
    /\ AdjacentKeys(last.pre.points, last.a, last.b)
    => NonDecreasing(points)

\* add_point_between put a point between adjacent keys of different values
\* on a curve of non-decreasing values, strictly between its neighbours'.
C20_Witness ==
    /\ last.op = "add_point_between"
    /\ last.ret # None
    /\ NonDecreasing(last.pre.points)
    /\ AdjacentKeys(last.pre.points, last.a, last.b)
    /\ points[last.a] < points[last.ret[1]]
    /\ points[last.ret[1]] < points[last.b]

\* The sweep is over: not running, timer stopped, indicator hidden, and the
\* last value sent is 0.
SweepStopped ==
    /\ ~sweep_running
    /\ ~sweep_timer
    /\ display_sweep_position = -1
    /\ sent = Some(0)

\* C21: a sweep running in Single Shot mode, whatever the direction item
\* and the speed, eventually is over (not running, timer stopped, position
\* shown -1, last value sent 0) unless the mode, the direction or the speed
\* is changed meanwhile.
C21_SingleShotStops ==
    \A d \in DirectionItems : \A v \in SweepSpeeds :
        (sweep_running /\ mode_combo = "Single Shot" /\ direction_combo = d
            /\ speed_slider = v)
        ~> (SweepStopped
            \/ ~(mode_combo = "Single Shot" /\ direction_combo = d /\ speed_slider = v))

\* C22: after any clicks on the Smooth and Linear buttons exactly one of
\* the two is checked, and it is the one that matches use_smooth.
C22_OneModeChecked ==
    /\ smooth_btn = use_smooth
    /\ linear_btn = ~use_smooth

\* C23: after every completed operation (a point value edited, a point
\* added, a point removed, a calibration file loaded) the percents that
\* have a point-entry widget are the keys of the curve's points.
C23_WidgetsMatchPoints == point_widgets = DOMAIN points

====
